---- MODULE Spec2Model ----
(***************************************************************************)
(* Model of server.js (Express + Firestore "tool center" service).         *)
(*                                                                         *)
(* Strings are sequences of atoms.  An atom is a one-character string      *)
(* ("+", " ", "4", "@", ...) or an opaque block of characters that holds   *)
(* no digit, no '+', no '@' and no white space ("abc", "unauthorized").    *)
(* The atom "Bearer_" stands for the seven characters of "Bearer ".        *)
(* JavaScript values are records [t, s, n, b] of one fixed shape.          *)
(***************************************************************************)
EXTENDS Integers, Sequences, FiniteSets, Bags, TLC

VARIABLES env, contacts, pending, inflight, resp, hist, raw, out

vars == <<env, contacts, pending, inflight, resp, hist, raw, out>>

-----------------------------------------------------------------------------
(* JavaScript values *)

Undef == [t |-> "undef", s |-> <<>>, n |-> 0, b |-> FALSE]
Null == [t |-> "null", s |-> <<>>, n |-> 0, b |-> FALSE]
Bool(x) == [t |-> "bool", s |-> <<>>, n |-> 0, b |-> x]
Num(x) == [t |-> "num", s |-> <<>>, n |-> x, b |-> FALSE]
Str(x) == [t |-> "str", s |-> x, n |-> 0, b |-> FALSE]
Lit(a) == Str(<<a>>)
Arr(x) == [t |-> "arr", s |-> x, n |-> 0, b |-> FALSE]
Obj == [t |-> "obj", s |-> <<>>, n |-> 0, b |-> FALSE]
Timestamp(a) == [t |-> "ts", s |-> <<a>>, n |-> 0, b |-> FALSE]
\* a number that is not an integer, such as 1.5
Frac == [t |-> "frac", s |-> <<>>, n |-> 0, b |-> FALSE]

\* JavaScript truthiness: "", 0, false, null and undefined are falsy.
Truthy(v) ==
  CASE v.t = "undef" -> FALSE
    [] v.t = "null" -> FALSE
    [] v.t = "bool" -> v.b
    [] v.t = "num" -> v.n # 0
    [] v.t = "str" -> v.s # <<>>
    [] OTHER -> TRUE

\* a ?? b
Coalesce(a, b) == IF a.t \in {"undef", "null"} THEN b ELSE a

\* a || b
OrElse(a, b) == IF Truthy(a) THEN a ELSE b

-----------------------------------------------------------------------------
(* String helpers *)

DigitChars == {"0", "1", "2", "3", "4", "5", "6", "7", "8", "9"}

IsDigit(c) == c \in DigitChars

IsSpace(c) == c = " "

RECURSIVE Filter(_, _)
Filter(s, keep) ==
  IF s = <<>> THEN <<>>
  ELSE IF Head(s) \in keep THEN <<Head(s)>> \o Filter(Tail(s), keep)
  ELSE Filter(Tail(s), keep)

RECURSIVE TrimLeft(_)
TrimLeft(s) == IF s # <<>> /\ IsSpace(Head(s)) THEN TrimLeft(Tail(s)) ELSE s

RECURSIVE TrimRight(_)
TrimRight(s) ==
  IF s # <<>> /\ IsSpace(s[Len(s)]) THEN TrimRight(SubSeq(s, 1, Len(s) - 1)) ELSE s

\* String.prototype.trim
Trim(s) == TrimRight(TrimLeft(s))

StartsWith(s, a) == s # <<>> /\ Head(s) = a

\* s.replace(/\D/g, "")
Digits(s) == Filter(s, DigitChars)

\* s.replace(/[^\d+]/g, "")
DigitsAndPlus(s) == Filter(s, DigitChars \cup {"+"})

DigitOf(d) ==
  CASE d = 0 -> "0" [] d = 1 -> "1" [] d = 2 -> "2" [] d = 3 -> "3"
    [] d = 4 -> "4" [] d = 5 -> "5" [] d = 6 -> "6" [] d = 7 -> "7"
    [] d = 8 -> "8" [] d = 9 -> "9"

RECURSIVE Decimal(_)
Decimal(k) == IF k < 10 THEN <<DigitOf(k)>> ELSE Decimal(k \div 10) \o <<DigitOf(k % 10)>>

RECURSIVE Join(_)
Join(elems) ==
  IF elems = <<>> THEN <<>>
  ELSE IF Len(elems) = 1 THEN <<Head(elems)>>
  ELSE <<Head(elems), ",">> \o Join(Tail(elems))

\* String(v)
StringOf(v) ==
  CASE v.t = "str" -> v.s
    [] v.t = "num" -> IF v.n < 0 THEN <<"-">> \o Decimal(0 - v.n) ELSE Decimal(v.n)
    [] v.t = "bool" -> IF v.b THEN <<"true">> ELSE <<"false">>
    [] v.t = "arr" -> Join(v.s)
    [] v.t = "obj" -> <<"[object", " ", "Object]">>
    [] v.t = "ts" -> <<"[object", " ", "Object]">>
    [] v.t = "null" -> <<"null">>
    [] v.t = "frac" -> <<"1", ".", "5">>
    [] OTHER -> <<"undefined">>

-----------------------------------------------------------------------------
(* toE164 *)

\* toE164 without the final test that the digit run is not empty
toE164_AlwaysPlus(v) ==
  IF ~Truthy(v) THEN Null
  ELSE LET s == Trim(StringOf(v))
           digits == Digits(s)
       IN IF StartsWith(s, "+") THEN Str(DigitsAndPlus(s))
          ELSE IF Len(digits) = 11 /\ StartsWith(digits, "1") THEN Str(<<"+">> \o digits)
          ELSE IF Len(digits) = 10 THEN Str(<<"+", "1">> \o digits)
          ELSE Str(<<"+">> \o digits)

\* toE164 with the country code of 10-digit numbers written without its '+'
toE164_BarePrefix(v) ==
  IF ~Truthy(v) THEN Null
  ELSE LET s == Trim(StringOf(v))
           digits == Digits(s)
       IN IF StartsWith(s, "+") THEN Str(DigitsAndPlus(s))
          ELSE IF Len(digits) = 11 /\ StartsWith(digits, "1") THEN Str(<<"+">> \o digits)
          ELSE IF Len(digits) = 10 THEN Str(<<"1">> \o digits)
          ELSE IF digits # <<>> THEN Str(<<"+">> \o digits)
          ELSE Null

\* toE164 without the North American country code for 10-digit numbers
toE164_NoCountryCode(v) ==
  IF ~Truthy(v) THEN Null
  ELSE LET s == Trim(StringOf(v))
           digits == Digits(s)
       IN IF StartsWith(s, "+") THEN Str(DigitsAndPlus(s))
          ELSE IF Len(digits) = 11 /\ StartsWith(digits, "1") THEN Str(<<"+">> \o digits)
          ELSE IF digits # <<>> THEN Str(<<"+">> \o digits)
          ELSE Null

toE164(v) ==
  IF ~Truthy(v) THEN Null
  ELSE LET s == Trim(StringOf(v))
           digits == Digits(s)
       IN IF StartsWith(s, "+") THEN Str(DigitsAndPlus(s))
          ELSE IF Len(digits) = 11 /\ StartsWith(digits, "1") THEN Str(<<"+">> \o digits)
          ELSE IF Len(digits) = 10 THEN Str(<<"+", "1">> \o digits)
          ELSE IF digits # <<>> THEN Str(<<"+">> \o digits)
          ELSE Null

-----------------------------------------------------------------------------
(* Environment configuration and authentication *)

EnvNames ==
  {"CALLER_REGISTRY_TOKEN", "CALLER_INIT_TOKEN_V2", "READ_SECRET", "INTAKE_SECRET",
   "INTAKE_WRITE_TOKEN"}

\* process.env.X || "": an unset variable and an empty one are both <<>>.
READ_SECRET == env["READ_SECRET"]

INTAKE_WRITE_TOKEN ==
  IF env["INTAKE_WRITE_TOKEN"] # <<>> THEN env["INTAKE_WRITE_TOKEN"] ELSE env["INTAKE_SECRET"]

\* the priority with CALLER_INIT_TOKEN_V2 tried first
expectedTokenFromEnv_InitFirst ==
  IF env["CALLER_INIT_TOKEN_V2"] # <<>> THEN env["CALLER_INIT_TOKEN_V2"]
  ELSE IF env["CALLER_REGISTRY_TOKEN"] # <<>> THEN env["CALLER_REGISTRY_TOKEN"]
  ELSE IF env["READ_SECRET"] # <<>> THEN env["READ_SECRET"]
  ELSE env["INTAKE_SECRET"]

expectedTokenFromEnv ==
  IF env["CALLER_REGISTRY_TOKEN"] # <<>> THEN env["CALLER_REGISTRY_TOKEN"]
  ELSE IF env["CALLER_INIT_TOKEN_V2"] # <<>> THEN env["CALLER_INIT_TOKEN_V2"]
  ELSE IF env["READ_SECRET"] # <<>> THEN env["READ_SECRET"]
  ELSE env["INTAKE_SECRET"]

\* A header that the request does not carry.
Absent == <<"(absent)">>

Bearer == <<"Bearer_">>

\* req.get(name) || ""
HeaderOrEmpty(h) == IF h = Absent THEN <<>> ELSE h

passesClientDataAuth(hdr) ==
  LET want == expectedTokenFromEnv
      rawAuth == HeaderOrEmpty(hdr.auth)
      x == HeaderOrEmpty(hdr.x)
  IN IF want = <<>> THEN FALSE
     ELSE IF StartsWith(rawAuth, "Bearer_") /\ Tail(rawAuth) = want THEN TRUE
     ELSE IF rawAuth = want THEN TRUE
     ELSE x = want

\* passesWriteAuth without the test that a token is configured
passesWriteAuth_AnyWant(hdr) ==
  LET want == INTAKE_WRITE_TOKEN
      rawAuth == HeaderOrEmpty(hdr.auth)
  IN IF StartsWith(rawAuth, "Bearer_") /\ Tail(rawAuth) = want THEN TRUE
     ELSE rawAuth = want

passesWriteAuth(hdr) ==
  LET want == INTAKE_WRITE_TOKEN
      rawAuth == HeaderOrEmpty(hdr.auth)
  IN IF want = <<>> THEN FALSE
     ELSE IF StartsWith(rawAuth, "Bearer_") /\ Tail(rawAuth) = want THEN TRUE
     ELSE rawAuth = want

\* auth that looks only at the scheme of the header
auth_AnyBearer(hdr, secret) == StartsWith(HeaderOrEmpty(hdr.auth), "Bearer_")

\* const auth = (req, secret) => req.get("Authorization") === `Bearer ${secret}`
auth(hdr, secret) == hdr.auth # Absent /\ hdr.auth = Bearer \o secret

\* the inline check of /twilio-init
passesTwilioAuth(hdr) ==
  LET a == HeaderOrEmpty(hdr.auth)
  IN StartsWith(a, "Bearer_") /\ Tail(a) = READ_SECRET

-----------------------------------------------------------------------------
(* Documents, requests and responses *)

\* obj.f, obj?.f on a document or a JSON body: undefined when the field is absent
Field(obj, f) == IF f \in DOMAIN obj THEN obj[f] ELSE Undef

EmptyObject == [f \in {} |-> Undef]

\* A collection slot without a document.
NoDoc == [exists |-> FALSE, data |-> EmptyObject]

Doc(d) == [exists |-> TRUE, data |-> d]

\* await db.collection(coll).doc(key).get(); a collection maps the keys that hold a
\* document to its data
Snap(coll, key) == IF key \in DOMAIN coll THEN Doc(coll[key]) ELSE NoDoc

\* What a handler answered: the request, whether the store was failing while it ran
\* (fault), the status and body sent, the storage reads it issued and the writes that
\* took effect.
Response(ep, req, fault, status, body, reads, writes) ==
  [ep |-> ep, req |-> req, fault |-> fault, status |-> status, body |-> body,
   reads |-> reads, writes |-> writes]

Header(a, x) == [auth |-> a, x |-> x]

NoRequest == [hdr |-> Header(Absent, Absent), body |-> EmptyObject]

NoResponse == Response("none", NoRequest, FALSE, 0, EmptyObject, 0, 0)

\* resp holds the response being sent; no response is being sent
Idle == resp = NoResponse

\* res.status(...).json(...): the response leaves the server
Sent ==
  /\ ~Idle
  /\ resp' = NoResponse
  /\ UNCHANGED <<env, contacts, pending, inflight, hist, raw, out>>

Unauthorized == [f \in {"error"} |-> Lit("unauthorized")]

CICD == Lit("conversation_initiation_client_data")

StatusFields ==
  {"isRegistered", "business", "cslb", "name", "phone_e164", "digits", "lastChannel",
   "source", "notes", "tags", "createdAt", "updatedAt", "error"}

\* Path of a field of dynamic_variables.memorycaller_status in the response body.
Mcs(f) ==
  CASE f = "isRegistered" -> "memorycaller_status.isRegistered"
    [] f = "business" -> "memorycaller_status.business"
    [] f = "cslb" -> "memorycaller_status.cslb"
    [] f = "name" -> "memorycaller_status.name"
    [] f = "phone_e164" -> "memorycaller_status.phone_e164"
    [] f = "digits" -> "memorycaller_status.digits"
    [] f = "lastChannel" -> "memorycaller_status.lastChannel"
    [] f = "source" -> "memorycaller_status.source"
    [] f = "notes" -> "memorycaller_status.notes"
    [] f = "tags" -> "memorycaller_status.tags"
    [] f = "createdAt" -> "memorycaller_status.createdAt"
    [] f = "updatedAt" -> "memorycaller_status.updatedAt"
    [] f = "error" -> "memorycaller_status.error"

McsPaths == {Mcs(f) : f \in StatusFields}

\* { type, dynamic_variables: { memorycaller_status: payload } }
ClientDataBody(payload) ==
  [p \in {"type"} \cup McsPaths |->
     IF p = "type" THEN CICD ELSE payload[CHOOSE f \in StatusFields : Mcs(f) = p]]

\* { type, dynamic_variables: {} }
ClientDataEmpty == [p \in {"type", "dynamic_variables"} |-> IF p = "type" THEN CICD ELSE Obj]

\* v && typeof v.toDate === "function" ? v.toDate().toISOString() : ""
ts(v) == IF v.t = "ts" THEN Str(v.s) ELSE Str(<<>>)

\* the payload without the ?? "" defaults
ClientDataPayload_NoDefaults(e164, snap) ==
  LET c == snap.data
  IN [f \in StatusFields |->
        CASE f = "isRegistered" -> Bool(snap.exists /\ Truthy(Field(c, "isRegistered")))
          [] f = "phone_e164" -> e164
          [] f = "digits" -> Str(IF StartsWith(e164.s, "+") THEN Tail(e164.s) ELSE e164.s)
          [] f = "tags" -> IF Field(c, "tags").t = "arr" THEN Field(c, "tags") ELSE Arr(<<>>)
          [] f = "createdAt" -> ts(Field(c, "createdAt"))
          [] f = "updatedAt" -> ts(Field(c, "updatedAt"))
          [] f = "error" -> Bool(FALSE)
          [] OTHER -> Field(c, f)]

\* The payload built from the snapshot (c is the document data, or null).
ClientDataPayload(e164, snap) ==
  LET c == snap.data
  IN [f \in StatusFields |->
        CASE f = "isRegistered" -> Bool(snap.exists /\ Truthy(Field(c, "isRegistered")))
          [] f = "phone_e164" -> e164
          [] f = "digits" -> Str(IF StartsWith(e164.s, "+") THEN Tail(e164.s) ELSE e164.s)
          [] f = "tags" -> IF Field(c, "tags").t = "arr" THEN Field(c, "tags") ELSE Arr(<<>>)
          [] f = "createdAt" -> ts(Field(c, "createdAt"))
          [] f = "updatedAt" -> ts(Field(c, "updatedAt"))
          [] f = "error" -> Bool(FALSE)
          [] OTHER -> Coalesce(Field(c, f), Str(<<>>))]

\* the catch block answering as if nothing had failed
ClientDataError_NotFlagged ==
  ClientDataBody([f \in StatusFields |->
     CASE f = "isRegistered" -> Bool(FALSE)
       [] f = "tags" -> Arr(<<>>)
       [] f = "error" -> Bool(FALSE)
       [] OTHER -> Str(<<>>)])

\* The body sent from the catch block.
ClientDataError ==
  ClientDataBody([f \in StatusFields |->
     CASE f = "isRegistered" -> Bool(FALSE)
       [] f = "tags" -> Arr(<<>>)
       [] f = "error" -> Bool(TRUE)
       [] OTHER -> Str(<<>>)])

\* the chain with || in place of ??
CallerRaw_Truthy(body) ==
  OrElse(Field(body, "telephony.from"),
         OrElse(Field(body, "twilio.From"), OrElse(Field(body, "from"), Null)))

\* req.body?.telephony?.from ?? req.body?.twilio?.From ?? req.body?.from ?? null
CallerRaw(body) ==
  Coalesce(Field(body, "telephony.from"),
           Coalesce(Field(body, "twilio.From"), Coalesce(Field(body, "from"), Null)))

\* POST /elevenlabs/client-data; fail: the storage read throws
ClientData(req, fail) ==
  LET e164 == toE164(CallerRaw(req.body))
      ep == "/elevenlabs/client-data"
  IN /\ Idle
     /\ resp' =
          IF ~passesClientDataAuth(req.hdr) THEN Response(ep, req, fail, 401, Unauthorized, 0, 0)
          ELSE IF ~Truthy(e164) THEN Response(ep, req, fail, 200, ClientDataEmpty, 0, 0)
          ELSE IF fail THEN Response(ep, req, fail, 200, ClientDataError, 1, 0)
          ELSE Response(ep, req, fail, 200,
                        ClientDataBody(ClientDataPayload(e164, Snap(contacts, e164.s))), 1, 0)
     /\ UNCHANGED <<env, contacts, pending, inflight, hist, raw, out>>

ErrorBody(code) == [f \in {"error"} |-> Lit(code)]

\* res.json(null)
NullBody == [f \in {"$"} |-> Null]

LookupFields == {"phone_e164", "name", "business", "cslb", "isRegistered"}

LookupBody(e164, c) ==
  [f \in LookupFields |->
     CASE f = "phone_e164" -> e164
       [] f = "isRegistered" -> Bool(Truthy(Field(c, "isRegistered")))
       [] OTHER -> Coalesce(Field(c, f), Str(<<>>))]

\* a lookup that reads a second time when the first read throws
ContactsLookup_Retry(req, fail) ==
  LET e164 == toE164(OrElse(Field(req.body, "phone_e164"), Field(req.body, "phone")))
      ep == "/contacts/lookup"
      snap == Snap(contacts, e164.s)
  IN /\ Idle
     /\ resp' =
          IF ~auth(req.hdr, READ_SECRET) THEN Response(ep, req, fail, 401, Unauthorized, 0, 0)
          ELSE IF ~Truthy(e164) THEN Response(ep, req, fail, 400, ErrorBody("invalid_phone"), 0, 0)
          ELSE IF snap.exists
          THEN Response(ep, req, fail, 200, LookupBody(e164, snap.data), IF fail THEN 2 ELSE 1, 0)
          ELSE Response(ep, req, fail, 200, NullBody, IF fail THEN 2 ELSE 1, 0)
     /\ UNCHANGED <<env, contacts, pending, inflight, hist, raw, out>>

\* POST /contacts/lookup
ContactsLookup(req, fail) ==
  LET e164 == toE164(OrElse(Field(req.body, "phone_e164"), Field(req.body, "phone")))
      ep == "/contacts/lookup"
      snap == Snap(contacts, e164.s)
  IN /\ Idle
     /\ resp' =
          IF ~auth(req.hdr, READ_SECRET) THEN Response(ep, req, fail, 401, Unauthorized, 0, 0)
          ELSE IF ~Truthy(e164) THEN Response(ep, req, fail, 400, ErrorBody("invalid_phone"), 0, 0)
          ELSE IF fail THEN Response(ep, req, fail, 500, ErrorBody("lookup_failed"), 1, 0)
          ELSE IF snap.exists THEN Response(ep, req, fail, 200, LookupBody(e164, snap.data), 1, 0)
          ELSE Response(ep, req, fail, 200, NullBody, 1, 0)
     /\ UNCHANGED <<env, contacts, pending, inflight, hist, raw, out>>

TwilioFields ==
  {"type", "customer_name", "business_name", "license_number", "phone_e164",
   "last_channel", "notes", "source", "tags", "is_registered_contact",
   "system__caller_id", "system__called_number", "system__call_sid", "first_message",
   "language"}

\* { type, dynamic_variables, conversation_config_override }, flattened
TwilioBody(phone, snap, body) ==
  LET data == snap.data
      customer_name == OrElse(Field(data, "name"), Str(<<>>))
  IN [f \in TwilioFields |->
        CASE f = "type" -> CICD
          [] f = "customer_name" -> customer_name
          [] f = "business_name" -> OrElse(Field(data, "business"), Str(<<>>))
          [] f = "license_number" -> OrElse(Field(data, "cslb"), Str(<<>>))
          [] f = "phone_e164" -> OrElse(Field(data, "phone_e164"), Str(<<>>))
          [] f = "last_channel" -> OrElse(Field(data, "lastChannel"), Str(<<>>))
          [] f = "notes" -> OrElse(Field(data, "notes"), Str(<<>>))
          [] f = "source" -> OrElse(Field(data, "source"), Str(<<>>))
          [] f = "tags" -> IF Field(data, "tags").t = "arr" THEN Field(data, "tags")
                           ELSE Arr(<<>>)
          [] f = "is_registered_contact" -> Bool(snap.exists)
          [] f = "system__caller_id" -> phone
          [] f = "system__called_number" ->
               OrElse(toE164(Field(body, "called_number")), Str(<<>>))
          [] f = "system__call_sid" -> OrElse(Field(body, "call_sid"), Str(<<>>))
          [] f = "first_message" ->
               IF snap.exists
               THEN Str(<<"Hi", " ">>
                        \o StringOf(OrElse(customer_name, Lit("there")))
                        \o <<" ", "welcome_back">>)
               ELSE Lit("get_started")
          [] OTHER -> Lit("en")]

\* POST /twilio-init
TwilioInit(req, fail) ==
  LET phone == toE164(Field(req.body, "caller_id"))
      ep == "/twilio-init"
  IN /\ Idle
     /\ resp' =
          IF ~passesTwilioAuth(req.hdr) THEN Response(ep, req, fail, 401, Unauthorized, 0, 0)
          ELSE IF ~Truthy(phone)
            THEN Response(ep, req, fail, 400, ErrorBody("missing caller_id"), 0, 0)
          ELSE IF fail THEN Response(ep, req, fail, 500, ErrorBody("server_error"), 1, 0)
          ELSE Response(ep, req, fail, 200, TwilioBody(phone, Snap(contacts, phone.s), req.body),
                        1, 0)
     /\ UNCHANGED <<env, contacts, pending, inflight, hist, raw, out>>

HealthBody ==
  [f \in {"status", "timestamp", "service", "version"} |->
     CASE f = "status" -> Lit("healthy")
       [] f = "timestamp" -> Lit("now")
       [] f = "service" -> Lit("tool-center-api")
       [] OTHER -> Lit("1.0.0")]

\* GET /healthz
\* a health check that probes the store by writing a document
Healthz_Probe(req) ==
  /\ Idle
  /\ resp' = Response("/healthz", req, FALSE, 200, HealthBody, 0, 1)
  /\ pending' = [k \in DOMAIN pending \cup {<<"healthz">>} |->
                   IF k = <<"healthz">> THEN HealthBody ELSE pending[k]]
  /\ UNCHANGED <<env, contacts, inflight, hist, raw, out>>

Healthz(req) ==
  /\ Idle
  /\ resp' = Response("/healthz", req, FALSE, 200, HealthBody, 0, 0)
  /\ UNCHANGED <<env, contacts, pending, inflight, hist, raw, out>>

-----------------------------------------------------------------------------
(* Pending contacts: validation and normalization *)

requiredFields ==
  <<"phone", "company", "name", "email", "location", "constructionType", "jobTitle",
    "companySize", "painPoints", "currentTools", "featureInterest", "participateFeedback",
    "contactMethod", "isRepeat", "lastContactDate", "createdDate", "callCount",
    "licenseNumber", "businessType", "languageUsed">>

RequiredSet == {requiredFields[i] : i \in DOMAIN requiredFields}

\* arr.includes(x) / str.includes(x) for a one-atom x
Includes(v, a) == \E i \in DOMAIN v.s : v.s[i] = a

\* ['text', 'phone', 'email'].includes(v): strict equality with one of the strings
OneOf(v, atoms) == v.t = "str" /\ Len(v.s) = 1 /\ v.s[1] \in atoms

\* `Missing required field: ${field}`
MissingMsg(field) ==
  CASE field = "phone" -> "Missing required field: phone"
    [] field = "company" -> "Missing required field: company"
    [] field = "name" -> "Missing required field: name"
    [] field = "email" -> "Missing required field: email"
    [] field = "location" -> "Missing required field: location"
    [] field = "constructionType" -> "Missing required field: constructionType"
    [] field = "jobTitle" -> "Missing required field: jobTitle"
    [] field = "companySize" -> "Missing required field: companySize"
    [] field = "painPoints" -> "Missing required field: painPoints"
    [] field = "currentTools" -> "Missing required field: currentTools"
    [] field = "featureInterest" -> "Missing required field: featureInterest"
    [] field = "participateFeedback" -> "Missing required field: participateFeedback"
    [] field = "contactMethod" -> "Missing required field: contactMethod"
    [] field = "isRepeat" -> "Missing required field: isRepeat"
    [] field = "lastContactDate" -> "Missing required field: lastContactDate"
    [] field = "createdDate" -> "Missing required field: createdDate"
    [] field = "callCount" -> "Missing required field: callCount"
    [] field = "licenseNumber" -> "Missing required field: licenseNumber"
    [] field = "businessType" -> "Missing required field: businessType"
    [] field = "languageUsed" -> "Missing required field: languageUsed"

\* the loop with if (!data[field]) in place of if (!(field in data))
RECURSIVE MissingErrors_Truthy(_, _)
MissingErrors_Truthy(data, fields) ==
  IF fields = <<>> THEN <<>>
  ELSE (IF Truthy(Field(data, Head(fields))) THEN <<>> ELSE <<MissingMsg(Head(fields))>>)
       \o MissingErrors_Truthy(data, Tail(fields))

RECURSIVE MissingErrors(_, _)
MissingErrors(data, fields) ==
  IF fields = <<>> THEN <<>>
  ELSE (IF Head(fields) \in DOMAIN data THEN <<>> ELSE <<MissingMsg(Head(fields))>>)
       \o MissingErrors(data, Tail(fields))

\* data.email.includes is not a function: a truthy email that is no string and no array
validateThrows(data) ==
  LET email == Field(data, "email")
  IN Truthy(email) /\ email.t \notin {"str", "arr"}

validatePendingContact(data) ==
  MissingErrors(data, requiredFields)
  \o (IF Truthy(Field(data, "email")) /\ ~Includes(Field(data, "email"), "@")
      THEN <<"email must be a valid email address">> ELSE <<>>)
  \o (IF Truthy(Field(data, "contactMethod"))
         /\ ~OneOf(Field(data, "contactMethod"), {"text", "phone", "email"})
      THEN <<"contactMethod must be one of: text, phone, email">> ELSE <<>>)
  \o (IF Truthy(Field(data, "businessType"))
         /\ ~OneOf(Field(data, "businessType"), {"LLC", "INC.", "Sole Proprietorship"})
      THEN <<"businessType must be one of: LLC, INC., Sole Proprietorship">>
      ELSE <<>>)
  \o (IF Field(data, "isRepeat").t \notin {"undef", "bool"}
      THEN <<"isRepeat must be a boolean">> ELSE <<>>)
  \o (IF Field(data, "callCount").t # "undef"
         /\ ~(Field(data, "callCount").t = "num" /\ Field(data, "callCount").n >= 0)
      THEN <<"callCount must be a non-negative integer">> ELSE <<>>)
  \o (IF Field(data, "participateFeedback").t \notin {"undef", "bool"}
      THEN <<"participateFeedback must be a boolean">> ELSE <<>>)
  \o (IF Truthy(Field(data, "featureInterest")) /\ Field(data, "featureInterest").t # "arr"
      THEN <<"featureInterest must be an array">> ELSE <<>>)

LowerOf(c) == CASE c = "A" -> "a" [] c = "X" -> "x" [] OTHER -> c

\* String.prototype.toLowerCase
toLowerCase(s) == [i \in DOMAIN s |-> LowerOf(s[i])]

\* value.trim() on the string-valued fields
TrimValue(v) == IF v.t = "str" THEN Str(Trim(v.s)) ELSE v

\* normalized.email.toLowerCase is not a function: a truthy email that is no string
normalizeThrows(data) ==
  LET email == TrimValue(Field(data, "email"))
  IN Truthy(email) /\ email.t # "str"

normalizePendingContact(data) ==
  [f \in DOMAIN data |->
     LET trimmed == TrimValue(data[f])
     IN IF f = "phone" /\ Truthy(trimmed) /\ Truthy(toE164(trimmed)) THEN toE164(trimmed)
        ELSE IF f = "email" /\ Truthy(trimmed) THEN Str(toLowerCase(trimmed.s))
        ELSE trimmed]

SystemFields == {"status", "submittedBy", "submittedAt", "updatedAt"}

\* FieldValue.serverTimestamp()
ServerTimestamp == Timestamp("server")

\* new Date().toISOString()
NowIso == Lit("now")

\* a payload that spreads the normalized body instead of listing the fields
Payload_Spread(normalized, e164) ==
  [f \in DOMAIN normalized \cup RequiredSet \cup SystemFields |->
     CASE f = "phone" -> e164
       [] f = "status" -> Lit("pending")
       [] f = "submittedBy" -> Lit("sms-intake")
       [] f \in {"submittedAt", "updatedAt"} -> Timestamp("server")
       [] OTHER -> Field(normalized, f)]

\* the payload object literal of the upsert handler
Payload(normalized, e164) ==
  [f \in RequiredSet \cup SystemFields |->
     CASE f = "phone" -> e164
       [] f = "status" -> Lit("pending")
       [] f = "submittedBy" -> Lit("sms-intake")
       [] f = "submittedAt" -> ServerTimestamp
       [] f = "updatedAt" -> ServerTimestamp
       [] OTHER -> Field(normalized, f)]

\* (existingData.callCount || 0) + 1
PlusOne(v) ==
  LET w == OrElse(v, Num(0))
  IN CASE w.t = "num" -> Num(w.n + 1)
       [] w.t = "bool" -> Num(2)
       [] w.t = "frac" -> Frac
       [] OTHER -> Str(StringOf(w) \o <<"1">>)

\* the update block without the line that preserves createdDate
MergeExisting_RequestDate(payload, existingData) ==
  [payload EXCEPT !["callCount"] = PlusOne(Field(existingData, "callCount")),
                  !["isRepeat"] = Bool(TRUE),
                  !["lastContactDate"] = NowIso]

\* the update block without the callCount increment
MergeExisting_NoIncrement(payload, existingData) ==
  [payload EXCEPT !["createdDate"] = Field(existingData, "createdDate"),
                  !["callCount"] = OrElse(Field(existingData, "callCount"), Num(0)),
                  !["isRepeat"] = Bool(TRUE),
                  !["lastContactDate"] = NowIso]

\* the if (isUpdate) block
MergeExisting(payload, existingData) ==
  [payload EXCEPT !["createdDate"] = Field(existingData, "createdDate"),
                  !["callCount"] = PlusOne(Field(existingData, "callCount")),
                  !["isRepeat"] = Bool(TRUE),
                  !["lastContactDate"] = NowIso]

-----------------------------------------------------------------------------
(* POST /pending-contacts/upsert *)

UpsertEp == "/pending-contacts/upsert"

ValidationFailed(errors) ==
  [f \in {"ok", "error", "details"} |->
     CASE f = "ok" -> Bool(FALSE)
       [] f = "error" -> Lit("validation_failed")
       [] OTHER -> Arr(errors)]

\* the failure body of the earlier version of the service: { error }
Failure_ErrorOnly(code) == [f \in {"error"} |-> Lit(code)]

Failure(code) ==
  [f \in {"ok", "error"} |-> IF f = "ok" THEN Bool(FALSE) ELSE Lit(code)]

\* the success response with an identifier that is not the key
UpsertOk_GeneratedId(e164, isUpdate, payload) ==
  [f \in {"ok", "id", "isUpdate", "callCount"} |->
     CASE f = "ok" -> Bool(TRUE)
       [] f = "id" -> Lit("abc123def456")
       [] f = "isUpdate" -> Bool(isUpdate)
       [] OTHER -> payload["callCount"]]

UpsertOk(e164, isUpdate, payload) ==
  [f \in {"ok", "id", "isUpdate", "callCount"} |->
     CASE f = "ok" -> Bool(TRUE)
       [] f = "id" -> e164
       [] f = "isUpdate" -> Bool(isUpdate)
       [] OTHER -> payload["callCount"]]

\* a write that is refused whatever the document
SetThrows_Always(payload) == DOMAIN payload = DOMAIN payload

\* docRef.set rejects a document that holds an undefined value
SetThrows(payload) == \E f \in DOMAIN payload : payload[f].t = "undef"

\* What the handler answers before it reads the store, or a response of "none" when
\* it goes on to the read: authentication, validation, normalization, the phone check.
UpsertEarly(req) ==
  LET errors == validatePendingContact(req.body)
      normalized == normalizePendingContact(req.body)
      e164 == toE164(Field(normalized, "phone"))
  IN IF ~passesWriteAuth(req.hdr) THEN Response(UpsertEp, req, FALSE, 401, Unauthorized, 0, 0)
     ELSE IF validateThrows(req.body)
       THEN Response(UpsertEp, req, FALSE, 500, Failure("upsert_failed"), 0, 0)
     ELSE IF errors # <<>>
       THEN Response(UpsertEp, req, FALSE, 400, ValidationFailed(errors), 0, 0)
     ELSE IF normalizeThrows(req.body)
       THEN Response(UpsertEp, req, FALSE, 500, Failure("upsert_failed"), 0, 0)
     ELSE IF ~Truthy(e164)
       THEN Response(UpsertEp, req, FALSE, 400, Failure("invalid_phone_number"), 0, 0)
     ELSE Response("none", req, FALSE, 0, EmptyObject, 0, 0)

\* The request after its read of the pending collection: the key, the payload to
\* write and whether it updates.
Continuation(req) ==
  LET normalized == normalizePendingContact(req.body)
      e164 == toE164(Field(normalized, "phone"))
      payload == Payload(normalized, e164)
      existingDoc == Snap(pending, e164.s)
  IN [req |-> req, key |-> e164.s, isUpdate |-> existingDoc.exists,
      payload |-> IF existingDoc.exists THEN MergeExisting(payload, existingDoc.data)
                  ELSE payload]

\* What has been submitted for a key since the service started: whether the key held
\* no document then (fresh), whether no two submissions for it have overlapped
\* (clean), and while both hold the number n of successful submissions and the
\* callCount c and createdDate cd of the first one, as submitted.
HistNone == [fresh |-> TRUE, clean |-> TRUE, n |-> 0, c |-> Undef, cd |-> Undef]

HistOf(key) == IF key \in DOMAIN hist THEN hist[key] ELSE HistNone

SetHist(key, h) == [k \in DOMAIN hist \cup {key} |-> IF k = key THEN h ELSE hist[k]]

InflightKeys == {r.key : r \in BagToSet(inflight)}

MaxInflight == 2

MaxCallCount == 3

\* The handler answering before any storage access.
UpsertReject(req) ==
  /\ Idle
  /\ UpsertEarly(req).ep # "none"
  /\ resp' = UpsertEarly(req)
  /\ UNCHANGED <<env, contacts, pending, inflight, hist, raw, out>>

\* The handler up to and including await docRef.get(); fail: the read throws.
UpsertRead(req, fail) ==
  LET cont == Continuation(req)
  IN /\ Idle
     /\ UpsertEarly(req).ep = "none"
     /\ IF fail
        THEN /\ resp' = Response(UpsertEp, req, TRUE, 500, Failure("upsert_failed"), 1, 0)
             /\ UNCHANGED <<inflight, hist>>
        ELSE /\ BagCardinality(inflight) < MaxInflight
             /\ cont.payload["callCount"].t = "num"
                  => cont.payload["callCount"].n <= MaxCallCount
             /\ inflight' = inflight (+) SetToBag({cont})
             /\ hist' = IF cont.key \in InflightKeys
                         THEN SetHist(cont.key, [HistOf(cont.key) EXCEPT !.clean = FALSE])
                         ELSE hist
             /\ UNCHANGED resp
     /\ UNCHANGED <<env, contacts, pending, raw, out>>

\* await docRef.set(payload) and the response; fail: the write throws.
UpsertFinish(cont, fail) ==
  /\ Idle
  /\ cont \in BagToSet(inflight)
  /\ inflight' = inflight (-) SetToBag({cont})
  /\ IF fail \/ SetThrows(cont.payload)
     THEN /\ resp' = Response(UpsertEp, cont.req, fail, 500, Failure("upsert_failed"), 1, 0)
          /\ UNCHANGED <<pending, hist>>
     ELSE /\ pending' = [k \in DOMAIN pending \cup {cont.key} |->
                           IF k = cont.key THEN cont.payload ELSE pending[k]]
          /\ resp' = Response(UpsertEp, cont.req, fail, 200,
                              UpsertOk(Str(cont.key), cont.isUpdate, cont.payload), 1, 1)
          /\ hist' = LET h == HistOf(cont.key)
                      IN IF ~(h.fresh /\ h.clean) THEN hist
                         ELSE IF h.n = 0
                         THEN SetHist(cont.key,
                                      [h EXCEPT !.n = 1,
                                                !.c = Field(cont.req.body, "callCount"),
                                                !.cd = Field(cont.req.body, "createdDate")])
                         ELSE SetHist(cont.key, [h EXCEPT !.n = h.n + 1])
  /\ UNCHANGED <<env, contacts, raw, out>>

-----------------------------------------------------------------------------
(* Sample data: the values requests and stored documents are drawn from *)

Phone10 == <<"4", "1", "5", "5", "5", "5", "1", "2", "1", "2">>

PhoneFormatted ==
  <<" ", "(", "4", "1", "5", ")", " ", "5", "5", "5", "-", "1", "2", "1", "2">>

Phone7 == <<"5", "5", "5", "1", "2", "1", "2">>

KeyA == <<"+", "1">> \o Phone10

KeyB == <<"+">> \o Phone7

TokA == <<"tokA">>

TokB == <<"tokB">>

TokC == <<"tokC">>

TokD == <<"tokD">>

TokE == <<"tokE">>

\* A token that no secret is set to.
TokF == <<"tokF">>

FullContact ==
  [f \in {"isRegistered", "business", "cslb", "name", "phone_e164", "lastChannel",
          "source", "notes", "tags", "createdAt", "updatedAt"} |->
     CASE f = "isRegistered" -> Bool(TRUE)
       [] f = "business" -> Lit("Acme")
       [] f = "cslb" -> Lit("CSLB")
       [] f = "name" -> Lit("Ann")
       [] f = "phone_e164" -> Str(KeyA)
       [] f = "lastChannel" -> Lit("sms")
       [] f = "source" -> Lit("web")
       [] f = "notes" -> Lit("note")
       [] f = "tags" -> Arr(<<"vip">>)
       [] f = "createdAt" -> Timestamp("T1")
       [] OTHER -> Timestamp("T2")]

\* A document written by hand: fields missing, null or of unexpected types.
SparseContact ==
  [f \in {"isRegistered", "business", "name", "tags", "createdAt", "notes"} |->
     CASE f = "isRegistered" -> Lit("yes")
       [] f = "business" -> Null
       [] f = "name" -> Num(7)
       [] f = "tags" -> Lit("vip")
       [] f = "createdAt" -> Lit("T1")
       [] OTHER -> Str(<<>>)]

ContactStores ==
  {EmptyObject, [k \in {KeyA} |-> FullContact], [k \in {KeyA} |-> SparseContact]}

\* The deployment the README describes: every secret set, all different.
DeployedEnv ==
  [v \in EnvNames |->
     CASE v = "CALLER_INIT_TOKEN_V2" -> TokA
       [] v = "READ_SECRET" -> TokB
       [] v = "INTAKE_WRITE_TOKEN" -> TokC
       [] v = "INTAKE_SECRET" -> TokD
       [] OTHER -> <<>>]

ValidBody ==
  [f \in RequiredSet |->
     CASE f = "phone" -> Str(Phone10)
       [] f = "email" -> Str(<<"A", "@", "x">>)
       [] f = "featureInterest" -> Arr(<<"estimates">>)
       [] f = "participateFeedback" -> Bool(TRUE)
       [] f = "contactMethod" -> Lit("text")
       [] f = "isRepeat" -> Bool(FALSE)
       [] f = "lastContactDate" -> Lit("d0")
       [] f = "createdDate" -> Lit("d1")
       [] f = "callCount" -> Num(0)
       [] f = "businessType" -> Lit("LLC")
       [] OTHER -> Lit("text")]

With(body, f, v) == [g \in DOMAIN body \cup {f} |-> IF g = f THEN v ELSE body[g]]

Without(body, f) == [g \in DOMAIN body \ {f} |-> body[g]]

Request(hdr, body) == [hdr |-> hdr, body |-> body]

-----------------------------------------------------------------------------
(* Specification of the read endpoints over a fixed contacts collection *)

CallerSamples ==
  {Undef, Null, Str(<<>>), Str(<<" ">>), Lit("abc"), Str(Phone10), Str(PhoneFormatted),
   Str(Phone7), Str(KeyA), Num(5551212), Num(0), Bool(FALSE)}

ReadHeaders ==
  {Header(Bearer \o TokA, Absent), Header(TokA, Absent), Header(Absent, TokA),
   Header(Bearer \o TokB, Absent), Header(Bearer \o TokC, Absent), Header(Absent, Absent)}

ClientDataBodies ==
  {[p \in {"telephony.from", "twilio.From", "from"} |->
      CASE p = "telephony.from" -> tf [] p = "twilio.From" -> tw [] OTHER -> fr] :
     tf \in CallerSamples, tw \in {Undef, Str(<<>>), Str(Phone7)},
     fr \in {Undef, Lit("abc"), Str(Phone10)}}

LookupBodies ==
  {[p \in {"phone_e164", "phone"} |-> IF p = "phone_e164" THEN a ELSE b] :
     a \in {Undef, Str(<<>>), Str(KeyA), Str(KeyB)},
     b \in {Undef, Null, Lit("abc"), Str(PhoneFormatted), Num(5551212)}}

TwilioBodies ==
  {[p \in {"caller_id", "called_number", "call_sid"} |->
      CASE p = "caller_id" -> a [] p = "called_number" -> b [] OTHER -> c] :
     a \in {Undef, Null, Lit("abc"), Str(Phone10), Str(KeyA), Str(Phone7)},
     b \in {Undef, Str(Phone7), Lit("abc")},
     c \in {Undef, Lit("CA_test")}}

InitRead ==
  /\ env = DeployedEnv
  /\ contacts \in ContactStores
  /\ pending = EmptyObject
  /\ inflight = EmptyBag
  /\ resp = NoResponse
  /\ hist = EmptyObject
  /\ raw = Str(<<>>)
  /\ out = Null

NextRead ==
  \/ \E h \in ReadHeaders, b \in ClientDataBodies, fail \in BOOLEAN :
       ClientData(Request(h, b), fail)
  \/ \E h \in ReadHeaders, b \in LookupBodies, fail \in BOOLEAN :
       ContactsLookup(Request(h, b), fail)
  \/ \E h \in ReadHeaders, b \in TwilioBodies, fail \in BOOLEAN :
       TwilioInit(Request(h, b), fail)
  \/ Healthz(NoRequest)
  \/ Sent

SpecRead == InitRead /\ [][NextRead]_vars

-----------------------------------------------------------------------------
(* Specification of the write endpoint: concurrent upserts *)

\* A document written by the earlier version of the service (set with merge).
LegacyPending ==
  [f \in {"phone_e164", "name", "business", "cslb", "isRegistered", "status",
          "submittedBy", "submittedAt", "updatedAt"} |->
     CASE f = "phone_e164" -> Str(KeyB)
       [] f = "isRegistered" -> Bool(FALSE)
       [] f = "status" -> Lit("pending")
       [] f = "submittedBy" -> Lit("sms-intake")
       [] f \in {"submittedAt", "updatedAt"} -> ServerTimestamp
       [] OTHER -> Str(<<>>)]

PendingStores == {EmptyObject, [k \in {KeyB} |-> LegacyPending]}

UpsertHeaders == {Header(Bearer \o TokC, Absent), Header(Bearer \o TokA, Absent)}

PaddedDate == <<" ", "d2", " ">>

\* one submission, and a later one for the same number written differently
FirstBody == ValidBody

\* (with another name, and a field the schema does not have)
SecondBody ==
  With(With(With(With(With(ValidBody, "phone", Str(PhoneFormatted)),
                      "createdDate", Str(PaddedDate)),
                 "callCount", Num(2)),
            "name", Lit("Bo")),
       "utmSource", Lit("ad"))

UpsertBodies ==
  {FirstBody, SecondBody, With(ValidBody, "phone", Lit("abc")),
   Without(ValidBody, "email"), With(ValidBody, "contactMethod", Lit("fax")),
   With(ValidBody, "email", Num(5)), With(ValidBody, "email", Arr(<<"@">>))}

UpsertRequests == {Request(h, b) : h \in UpsertHeaders, b \in UpsertBodies}

Init ==
  /\ env = DeployedEnv
  /\ contacts = [k \in {KeyA} |-> FullContact]
  /\ pending \in PendingStores
  /\ inflight = EmptyBag
  /\ resp = NoResponse
  /\ hist = [k \in DOMAIN pending |-> [HistNone EXCEPT !.fresh = FALSE]]
  /\ raw = Str(<<>>)
  /\ out = Null

Next ==
  \/ \E req \in UpsertRequests : UpsertReject(req)
  \/ \E req \in UpsertRequests, fail \in BOOLEAN : UpsertRead(req, fail)
  \/ \E cont \in BagToSet(inflight), fail \in BOOLEAN : UpsertFinish(cont, fail)
  \/ Sent

Spec == Init /\ [][Next]_vars

-----------------------------------------------------------------------------
(* Specification of authentication: every endpoint under every configuration *)

\* The token each secret holds when it is set.
SecretValue(v) ==
  CASE v = "CALLER_REGISTRY_TOKEN" -> TokE
    [] v = "CALLER_INIT_TOKEN_V2" -> TokA
    [] v = "READ_SECRET" -> TokB
    [] v = "INTAKE_WRITE_TOKEN" -> TokC
    [] v = "INTAKE_SECRET" -> TokD

\* Every subset of the secrets set, each to its own token, and the configurations in
\* which two secrets were given the same token.
AuthEnvs ==
  {[v \in EnvNames |-> IF v \in set THEN SecretValue(v) ELSE <<>>] : set \in SUBSET EnvNames}
    \cup {[v \in EnvNames |-> IF v \in pair THEN TokA ELSE <<>>] :
            pair \in {s \in SUBSET EnvNames : Cardinality(s) = 2}}

\* The tokens a client may try: the value of any secret that is set, and a token no
\* secret is set to.
AuthTokens == ({env[v] : v \in EnvNames} \ {<<>>}) \cup {TokF}

\* "Authorization: Bearer " with an empty token, as req.get returns it: the HTTP
\* parser strips trailing white space from header values, so that a value of "Bearer "
\* alone never reaches a handler.
BearerAlone == <<"Bearer">>

\* The header forms a client can send a token in, alone or together, and requests
\* that carry no token or an empty one.
AuthHeaders ==
  {Header(Bearer \o t, Absent) : t \in AuthTokens}
    \cup {Header(t, Absent) : t \in AuthTokens}
    \cup {Header(Absent, t) : t \in AuthTokens}
    \cup {Header(t, t) : t \in AuthTokens}
    \cup {Header(Absent, Absent), Header(<<>>, <<>>), Header(BearerAlone, Absent)}

AuthClientDataBodies ==
  {[p \in {"from"} |-> Str(Phone10)], EmptyObject}

AuthLookupBodies ==
  {[p \in {"phone"} |-> Str(PhoneFormatted)], EmptyObject}

AuthTwilioBodies ==
  {[p \in {"caller_id"} |-> Str(KeyA)], EmptyObject}

\* a submission that reports the highest call count, and one without an email
AuthUpsertBodies ==
  {With(ValidBody, "callCount", Num(MaxCallCount)), Without(ValidBody, "email")}

InitAuth ==
  /\ env \in AuthEnvs
  /\ contacts \in {EmptyObject, [k \in {KeyA} |-> FullContact]}
  /\ pending = EmptyObject
  /\ inflight = EmptyBag
  /\ resp = NoResponse
  /\ hist = EmptyObject
  /\ raw = Str(<<>>)
  /\ out = Null

NextAuth ==
  \/ \E h \in AuthHeaders, b \in AuthClientDataBodies : ClientData(Request(h, b), FALSE)
  \/ \E h \in AuthHeaders, b \in AuthLookupBodies : ContactsLookup(Request(h, b), FALSE)
  \/ \E h \in AuthHeaders, b \in AuthTwilioBodies : TwilioInit(Request(h, b), FALSE)
  \/ \E h \in AuthHeaders, b \in AuthUpsertBodies : UpsertReject(Request(h, b))
  \/ \E h \in AuthHeaders, b \in AuthUpsertBodies : UpsertRead(Request(h, b), FALSE)
  \/ \E cont \in BagToSet(inflight) : UpsertFinish(cont, FALSE)
  \/ Sent

SpecAuth == InitAuth /\ [][NextAuth]_vars

-----------------------------------------------------------------------------
(* Specification of toE164 alone: an input typed one character at a time *)

MaxDigits == 11

MaxOthers == 2

OtherChars == {" ", "+", "x"}

NonStringInputs ==
  {Undef, Null, Num(0), Num(5551212), Bool(TRUE), Bool(FALSE), Arr(<<>>),
   Arr(<<"+", "1">>), Obj, Frac}

Quiet ==
  /\ env = DeployedEnv
  /\ contacts = EmptyObject
  /\ pending = EmptyObject
  /\ inflight = EmptyBag
  /\ resp = NoResponse
  /\ hist = EmptyObject

InitE164 ==
  /\ Quiet
  /\ raw = Str(<<>>)
  /\ out = toE164(Str(<<>>))

\* The first digit is 1 or 2; the digits after it are all 5.
TypeDigit(d) ==
  /\ raw.t = "str"
  /\ Len(Digits(raw.s)) < MaxDigits
  /\ d \in (IF Digits(raw.s) = <<>> THEN {"1", "2"} ELSE {"5"})
  /\ raw' = Str(raw.s \o <<d>>)
  /\ out' = toE164(raw')
  /\ UNCHANGED <<env, contacts, pending, inflight, resp, hist>>

TypeOther(c) ==
  /\ raw.t = "str"
  /\ Len(raw.s) - Len(Digits(raw.s)) < MaxOthers
  /\ raw' = Str(raw.s \o <<c>>)
  /\ out' = toE164(raw')
  /\ UNCHANGED <<env, contacts, pending, inflight, resp, hist>>

GiveValue(v) ==
  /\ raw = Str(<<>>)
  /\ raw' = v
  /\ out' = toE164(v)
  /\ UNCHANGED <<env, contacts, pending, inflight, resp, hist>>

NextE164 ==
  \/ \E d \in DigitChars : TypeDigit(d)
  \/ \E c \in OtherChars : TypeOther(c)
  \/ \E v \in NonStringInputs : GiveValue(v)

SpecE164 == InitE164 /\ [][NextE164]_vars

-----------------------------------------------------------------------------
(* Properties of toE164 *)

IsDigitChar(c) == c \in {"0", "1", "2", "3", "4", "5", "6", "7", "8", "9"}

\* the input with all non-digits removed
DigitRun(s) == SelectSeq(s, IsDigitChar)

\* the input begins with '+' once leading white space is skipped
RECURSIVE BeginsWithPlus(_)
BeginsWithPlus(s) ==
  IF s = <<>> THEN FALSE
  ELSE IF Head(s) = " " THEN BeginsWithPlus(Tail(s))
  ELSE Head(s) = "+"

\* C10: for an input that does not begin with '+' after trimming, a digit run of
\* exactly 10 digits gives "+1" followed by the digits, and a digit run of exactly 11
\* digits that begins with 1 gives "+" followed by the digits.
C10_TenAndElevenDigits ==
  (raw.t = "str" /\ ~BeginsWithPlus(raw.s)) =>
    LET d == DigitRun(raw.s)
    IN /\ Len(d) = 10 => out = Str(<<"+", "1">> \o d)
       /\ (Len(d) = 11 /\ d[1] = "1") => out = Str(<<"+">> \o d)

\* a 10-digit number typed with a separator in it
C10_Witness ==
  /\ raw.t = "str"
  /\ ~BeginsWithPlus(raw.s)
  /\ Len(DigitRun(raw.s)) = 10
  /\ Len(raw.s) > 10
  /\ out = Str(<<"+", "1">> \o DigitRun(raw.s))

-----------------------------------------------------------------------------
(* Properties of POST /elevenlabs/client-data *)

RECURSIVE FirstNonEmpty(_)
FirstNonEmpty(values) ==
  IF values = <<>> THEN <<>>
  ELSE IF Head(values) # <<>> THEN Head(values)
  ELSE FirstNonEmpty(Tail(values))

\* the secret that POST /elevenlabs/client-data is documented to expect
ClientDataSecret ==
  FirstNonEmpty(<<env["CALLER_REGISTRY_TOKEN"], env["CALLER_INIT_TOKEN_V2"],
                  env["READ_SECRET"], env["INTAKE_SECRET"]>>)

\* the request carries the token t in one of the three header forms
Presents(hdr, t) ==
  /\ t # <<>>
  /\ \/ hdr.auth = <<"Bearer_">> \o t
     \/ hdr.auth = t
     \/ hdr.x = t

ClientDataEp == "/elevenlabs/client-data"

\* resp answers an authenticated client-data request
AuthenticClientData == resp.ep = ClientDataEp /\ Presents(resp.req.hdr, ClientDataSecret)

\* the caller string of the request: the first of the three fields that is neither
\* null nor undefined, if any
CallerString(body) ==
  LET present(p) == p \in DOMAIN body /\ body[p].t \notin {"null", "undef"}
  IN IF present("telephony.from") THEN body["telephony.from"]
     ELSE IF present("twilio.From") THEN body["twilio.From"]
     ELSE IF present("from") THEN body["from"]
     ELSE Null

StatusOf(f) == Field(resp.body, Mcs(f))

EmptyStringFields ==
  {"business", "cslb", "name", "lastChannel", "source", "notes", "createdAt", "updatedAt"}

\* C2: with valid authentication, when the storage read throws the response is
\* HTTP 200 with memorycaller_status error=true, isRegistered=false, tags=[] and every
\* other field the empty string.
C2_StorageFailureStill200 ==
  (AuthenticClientData /\ resp.fault /\ resp.reads = 1) =>
    /\ resp.status = 200
    /\ StatusOf("error") = Bool(TRUE)
    /\ StatusOf("isRegistered") = Bool(FALSE)
    /\ StatusOf("tags") = Arr(<<>>)
    /\ \A f \in StatusFields \ {"error", "isRegistered", "tags"} : StatusOf(f) = Str(<<>>)

\* the read for a registered caller threw
C2_Witness ==
  /\ AuthenticClientData
  /\ resp.fault
  /\ resp.reads = 1
  /\ KeyA \in DOMAIN contacts
  /\ CallerString(resp.req.body) = Str(PhoneFormatted)
  /\ StatusOf("error") = Bool(TRUE)

\* C3: every response to an authenticated client-data request is HTTP 200 with type
\* conversation_initiation_client_data and a memorycaller_status object holding all
\* 13 required fields, error being a boolean.
C3_FixedShapeAlways ==
  AuthenticClientData =>
    /\ resp.status = 200
    /\ Field(resp.body, "type") = Lit("conversation_initiation_client_data")
    /\ \A f \in StatusFields : Mcs(f) \in DOMAIN resp.body
    /\ StatusOf("error").t = "bool"

\* a caller string that is null, undefined, empty, or without digit and leading '+'
NoKeyCaller(v) ==
  \/ v.t \in {"null", "undef"}
  \/ v.t = "str" /\ DigitRun(v.s) = <<>> /\ ~BeginsWithPlus(v.s)

\* C4: when the caller string is null, undefined, empty or a string with no digit and
\* no leading '+', toE164 produces no key and the authenticated request is answered
\* HTTP 200 with a payload that is no error, without any storage read.
C4_NoKeyNoRead ==
  (AuthenticClientData /\ NoKeyCaller(CallerString(resp.req.body))) =>
    /\ toE164(CallerString(resp.req.body)) = Null
    /\ resp.status = 200
    /\ Field(resp.body, "type") = Lit("conversation_initiation_client_data")
    /\ StatusOf("error") # Bool(TRUE)
    /\ resp.reads = 0

\* a blank caller string while the store is failing
C4_Witness ==
  /\ AuthenticClientData
  /\ CallerString(resp.req.body) = Str(<<" ">>)
  /\ resp.fault
  /\ resp.status = 200
  /\ resp.reads = 0

\* C5: when the phone normalizes to a key with no document in the contacts
\* collection, the response is HTTP 200 with isRegistered=false, error=false, tags=[]
\* and business, cslb, name, lastChannel, source, notes, createdAt, updatedAt empty.
C5_UnknownCallerDefaults ==
  LET key == toE164(CallerString(resp.req.body))
  IN (AuthenticClientData /\ ~resp.fault /\ key.t = "str" /\ key.s \notin DOMAIN contacts) =>
       /\ resp.status = 200
       /\ StatusOf("isRegistered") = Bool(FALSE)
       /\ StatusOf("error") = Bool(FALSE)
       /\ StatusOf("tags") = Arr(<<>>)
       /\ \A f \in EmptyStringFields : StatusOf(f) = Str(<<>>)

\* an unknown number while another contact is registered
C5_Witness ==
  /\ AuthenticClientData
  /\ ~resp.fault
  /\ KeyA \in DOMAIN contacts
  /\ toE164(CallerString(resp.req.body)) = Str(KeyB)
  /\ StatusOf("phone_e164") = Str(KeyB)
  /\ StatusOf("isRegistered") = Bool(FALSE)

-----------------------------------------------------------------------------
(* Properties of POST /pending-contacts/upsert *)

\* The store and the last response agree with n successful, non-overlapping
\* submissions for key k, the first of which carried callCount c and is recorded with
\* createdDate created.
AfterSubmissions(k, n, c, created) ==
  /\ k \in DOMAIN pending
  /\ pending[k]["createdDate"] = created
  /\ pending[k]["callCount"] = Num(c + n - 1)
  /\ (resp.ep = UpsertEp /\ resp.status = 200 /\ resp.body["id"] = Str(k)) =>
       /\ resp.body["isUpdate"] = Bool(n >= 2)
       /\ resp.body["callCount"] = Num(c + n - 1)

\* the keys that held no document at the start and whose submissions never overlapped
SequentialKeys == {k \in DOMAIN hist : hist[k].fresh /\ hist[k].clean /\ hist[k].n >= 1}

\* C1 as stated: after N >= 1 non-overlapping successful submissions for a key that
\* held no document, the first answered isUpdate=false with the submitted callCount c,
\* the k-th isUpdate=true with callCount c + k - 1, and the stored createdDate equals
\* the createdDate of the first submission.
C1_AsStated ==
  \A k \in SequentialKeys : AfterSubmissions(k, hist[k].n, hist[k].c.n, hist[k].cd)

\* C1 (amended): the same, the stored createdDate being the createdDate of the first
\* submission with its surrounding white space trimmed.
C1_RepeatSubmissions ==
  \A k \in SequentialKeys :
    AfterSubmissions(k, hist[k].n, hist[k].c.n, TrimValue(hist[k].cd))

\* the second submission in a row for a number first submitted with callCount 2
C1_Witness ==
  /\ KeyA \in SequentialKeys
  /\ hist[KeyA].n = 2
  /\ hist[KeyA].c = Num(2)
  /\ resp.ep = UpsertEp
  /\ resp.status = 200
  /\ resp.body["isUpdate"] = Bool(TRUE)
  /\ resp.body["callCount"] = Num(3)
  /\ resp.req.body["callCount"] = Num(0)

-----------------------------------------------------------------------------
(* Properties of authentication *)

LookupEp == "/contacts/lookup"

TwilioEp == "/twilio-init"

AuthenticatedEps == {ClientDataEp, LookupEp, UpsertEp, TwilioEp}

\* the secret each authenticated endpoint is configured with
EndpointSecret(ep) ==
  CASE ep = ClientDataEp -> ClientDataSecret
    [] ep = UpsertEp -> FirstNonEmpty(<<env["INTAKE_WRITE_TOKEN"], env["INTAKE_SECRET"]>>)
    [] OTHER -> env["READ_SECRET"]

\* r answers a request whose token is missing or is not the secret of the endpoint
Unauthenticated(r) ==
  r.ep \in AuthenticatedEps /\ ~Presents(r.req.hdr, EndpointSecret(r.ep))

PairwiseDistinct ==
  \A a, b \in EnvNames : (a # b /\ env[a] # <<>> /\ env[b] # <<>>) => env[a] # env[b]

\* the requests that carry the token t, in each header form
Carrying(t) == {Header(Bearer \o t, Absent), Header(t, Absent), Header(Absent, t)}

ReadsWith(t) ==
  \E h \in Carrying(t) : passesClientDataAuth(h) \/ auth(h, READ_SECRET)

WritesWith(t) == \E h \in Carrying(t) : passesWriteAuth(h)

\* C7: when the secrets that are set have pairwise distinct values, no token
\* authenticates both a read endpoint (/elevenlabs/client-data or /contacts/lookup) and
\* POST /pending-contacts/upsert.
C7_SeparateWriteToken ==
  PairwiseDistinct => \A t \in AuthTokens : ~(ReadsWith(t) /\ WritesWith(t))

\* C8: every authenticated endpoint accepts its secret as "Authorization: Bearer
\* <token>" and in at least one of the forms "Authorization: <token>" and
\* "X-Auth-Token: <token>", and accepts a request only when it carries exactly the
\* secret.
C8_PrimaryAndFallbackForm ==
  LET s == EndpointSecret(resp.ep)
      h == resp.req.hdr
  IN (resp.ep \in AuthenticatedEps /\ s # <<>>) =>
       /\ h.auth = Bearer \o s => resp.status # 401
       /\ (h.auth = s /\ h.x = s) => resp.status # 401
       /\ resp.status # 401 => Presents(h, s)

\* C9: POST /elevenlabs/client-data expects the first non-empty value among
\* CALLER_REGISTRY_TOKEN, CALLER_INIT_TOKEN_V2, READ_SECRET, INTAKE_SECRET, and a request
\* is authenticated exactly when it presents that value; the value of a lower-priority
\* secret is answered 401.
C9_FirstNonEmptySecret ==
  resp.ep = ClientDataEp =>
    (resp.status # 401 <=> Presents(resp.req.hdr, ClientDataSecret))

\* READ_SECRET is presented while CALLER_REGISTRY_TOKEN is set to another value
C9_Witness ==
  /\ resp.ep = ClientDataEp
  /\ env["CALLER_REGISTRY_TOKEN"] = TokE
  /\ env["READ_SECRET"] = TokB
  /\ resp.req.hdr = Header(Bearer \o TokB, Absent)
  /\ resp.status = 401

-----------------------------------------------------------------------------
(* Further properties of toE164 *)

\* C11: for an input that begins with '+' after trimming, the result is '+' followed
\* by exactly the digits of the input in their order: every other character, a later
\* '+' included, is removed.
C11_LeadingPlusKeepsDigits ==
  (raw.t = "str" /\ BeginsWithPlus(raw.s)) => out = Str(<<"+">> \o DigitRun(raw.s))

\* C12: for an input that does not begin with '+' and whose digit run is neither 10
\* digits nor 11 digits starting with 1, a digit run of 7 to 15 digits gives '+'
\* followed by the digit run, and every other length gives no key.
C12_PlausibleLengthOnly ==
  LET d == DigitRun(raw.s)
  IN (/\ raw.t = "str"
      /\ ~BeginsWithPlus(raw.s)
      /\ Len(d) # 10
      /\ ~(Len(d) = 11 /\ d[1] = "1")) =>
       IF Len(d) >= 7 /\ Len(d) <= 15 THEN out = Str(<<"+">> \o d) ELSE out = Null

-----------------------------------------------------------------------------
(* Specification of upsert validation: one field of a valid body varied at a time *)

\* A valid submission that reports the highest call count.
BaseBody == With(ValidBody, "callCount", Num(MaxCallCount))

\* a phone that begins with '+' and holds a second one
OddPhone == <<"+", "1", "+", "5">>

PhoneValues ==
  {Str(PhoneFormatted), Str(OddPhone), Null, Str(<<>>), Str(<<" ">>), Lit("abc")}

EnumValues(field) ==
  IF field = "contactMethod"
  THEN {Lit("fax"), Str(<<>>), Str(<<" ", "text", " ">>), Lit("email"), Num(5)}
  ELSE {Lit("Corp"), Str(<<>>), Str(<<" ", "LLC", " ">>), Null, Lit("llc")}

EmailValues == {Str(<<>>), Lit("nobody"), Str(<<" ", "A", "@", "x", " ">>)}

\* values of every type but the one the field is validated to have
TypedValues(field) ==
  CASE field = "featureInterest" -> {Null, Bool(FALSE), Lit("x"), Num(5), Obj}
    [] field = "callCount" ->
         {Null, Num(0 - 1), Frac, Str(<<>>), Lit("3"), Bool(FALSE), Arr(<<>>)}
    [] OTHER -> {Null, Num(0), Num(1), Str(<<>>), Lit("true"), Arr(<<>>)}

TypedFields == {"isRepeat", "callCount", "participateFeedback", "featureInterest"}

ValidateBodies ==
  {BaseBody}
    \cup {Without(BaseBody, f) : f \in RequiredSet}
    \cup {With(BaseBody, "phone", v) : v \in PhoneValues}
    \cup {With(BaseBody, "contactMethod", v) : v \in EnumValues("contactMethod")}
    \cup {With(BaseBody, "businessType", v) : v \in EnumValues("businessType")}
    \cup {With(BaseBody, "email", v) : v \in EmailValues}
    \cup UNION {{With(BaseBody, f, v) : v \in TypedValues(f)} : f \in TypedFields}

WriteHeader == Header(Bearer \o TokC, Absent)

InitValidate ==
  /\ env = DeployedEnv
  /\ contacts = EmptyObject
  /\ pending = EmptyObject
  /\ inflight = EmptyBag
  /\ resp = NoResponse
  /\ hist = EmptyObject
  /\ raw = Str(<<>>)
  /\ out = Null

NextValidate ==
  \/ \E b \in ValidateBodies : UpsertReject(Request(WriteHeader, b))
  \/ \E b \in ValidateBodies : UpsertRead(Request(WriteHeader, b), FALSE)
  \/ \E cont \in BagToSet(inflight) : UpsertFinish(cont, FALSE)
  \/ Sent

SpecValidate == InitValidate /\ [][NextValidate]_vars

-----------------------------------------------------------------------------
(* Properties of upsert validation and of the document key *)

\* exactly one leading '+' followed by at least one digit and nothing else
Canonical(k) ==
  /\ Len(k) >= 2
  /\ k[1] = "+"
  /\ \A i \in 2..Len(k) : IsDigitChar(k[i])

\* C13: every key under which a document of pending_contacts is read or written is in
\* canonical E.164 form, a '+' followed by digits only; no request body leads to a key
\* such as '+' or '+1+2'.
C13_CanonicalKeys ==
  /\ \A k \in DOMAIN pending : Canonical(k)
  /\ \A cont \in BagToSet(inflight) : Canonical(cont.key)

\* resp answers an upsert that carried the write token
AuthenticUpsert == resp.ep = UpsertEp /\ resp.req.hdr = WriteHeader

\* the response is 400 with the given error code, and nothing was read or written
Refused(code) ==
  /\ resp.status = 400
  /\ resp.body["ok"] = Bool(FALSE)
  /\ resp.body["error"] = Lit(code)
  /\ resp.reads = 0
  /\ resp.writes = 0

\* C14: an authenticated upsert whose body is valid but for one missing required
\* field is answered 400 validation_failed with a details list of exactly one entry,
\* which names that field, and no document is read or written.
C14_OneMissingFieldNamed ==
  \A f \in RequiredSet :
    (AuthenticUpsert /\ resp.req.body = Without(BaseBody, f)) =>
      /\ Refused("validation_failed")
      /\ resp.body["details"] = Arr(<<MissingMsg(f)>>)

\* the body without isRepeat is refused after another submission was stored
C14_Witness ==
  /\ AuthenticUpsert
  /\ resp.req.body = Without(BaseBody, "isRepeat")
  /\ resp.status = 400
  /\ KeyA \in DOMAIN pending

EnumOf(field) ==
  IF field = "contactMethod" THEN {"text", "phone", "email"}
  ELSE {"LLC", "INC.", "Sole Proprietorship"}

\* v is a string that is a member of the set once its surrounding white space is removed
InEnumAfterTrim(field, v) ==
  /\ v.t = "str"
  /\ Len(TrimValue(v).s) = 1
  /\ TrimValue(v).s[1] \in EnumOf(field)

\* the response is 200 and the document stored under key holds value in field
StoredAs(key, field, value) ==
  /\ resp.status = 200
  /\ resp.writes = 1
  /\ key \in DOMAIN pending
  /\ pending[key][field] = value

\* C15: with all required fields present, a contactMethod or businessType outside its
\* set (the empty string and other falsy values included) is answered 400 and nothing
\* is written; a value inside the set after trimming is accepted and stored trimmed.
C15_EnumEnforced ==
  \A field \in {"contactMethod", "businessType"} :
    \A v \in EnumValues(field) :
      (AuthenticUpsert /\ resp.req.body = With(BaseBody, field, v)) =>
        IF InEnumAfterTrim(field, v) THEN StoredAs(KeyA, field, TrimValue(v))
        ELSE resp.status = 400 /\ resp.writes = 0

HasAt(v) == v.t = "str" /\ \E i \in DOMAIN v.s : v.s[i] = "@"

\* the details list of the response holds the message
DetailsInclude(msg) ==
  /\ "details" \in DOMAIN resp.body
  /\ \E i \in DOMAIN resp.body["details"].s : resp.body["details"].s[i] = msg

\* C16: whenever the email is present and holds no '@' (the empty string included),
\* the request is answered 400 validation_failed with the email violation among the
\* details, and nothing is written.
C16_EmailNeedsAt ==
  \A v \in EmailValues :
    (AuthenticUpsert /\ resp.req.body = With(BaseBody, "email", v) /\ ~HasAt(v)) =>
      /\ Refused("validation_failed")
      /\ DetailsInclude("email must be a valid email address")

\* the value has the type the field is documented to have
WellTyped(field, v) ==
  CASE field = "callCount" -> v.t = "num" /\ v.n >= 0
    [] field = "featureInterest" -> v.t = "arr"
    [] OTHER -> v.t = "bool"

TypeMsg(field) ==
  CASE field = "isRepeat" -> "isRepeat must be a boolean"
    [] field = "callCount" -> "callCount must be a non-negative integer"
    [] field = "participateFeedback" -> "participateFeedback must be a boolean"
    [] field = "featureInterest" -> "featureInterest must be an array"

\* C17: an upsert is answered 200 and written only if isRepeat is a boolean, callCount
\* a non-negative integer, participateFeedback a boolean and featureInterest an array;
\* a present value of another type (null, 0, false and "" included) in one of the
\* four fields is answered 400 validation_failed naming the field.
C17_TypedFields ==
  /\ (AuthenticUpsert /\ resp.status = 200) =>
       \A f \in TypedFields : WellTyped(f, Field(resp.req.body, f))
  /\ \A f \in TypedFields :
       \A v \in TypedValues(f) :
         (AuthenticUpsert /\ resp.req.body = With(BaseBody, f, v) /\ ~WellTyped(f, v)) =>
           /\ Refused("validation_failed")
           /\ DetailsInclude(TypeMsg(f))

\* the documents stored since the service started: those under a key that held no
\* document then
WrittenKeys == {k \in DOMAIN pending : HistOf(k).fresh}

\* a successful upsert wrote one document, under the key toE164(phone), which the
\* stored phone and the response id both equal
KeyedByPhone ==
  (AuthenticUpsert /\ resp.status = 200) =>
    LET key == toE164(Field(resp.req.body, "phone"))
    IN /\ resp.writes = 1
       /\ key.t = "str"
       /\ key.s \in DOMAIN pending
       /\ pending[key.s]["phone"] = key
       /\ resp.body["id"] = key

\* one document per canonical phone, each holding its key and the fixed system fields
OnePerPhone ==
  /\ \A k \in WrittenKeys :
       /\ pending[k]["phone"] = Str(k)
       /\ pending[k]["status"] = Lit("pending")
       /\ pending[k]["submittedBy"] = Lit("sms-intake")
  /\ \A j, k \in WrittenKeys : pending[j]["phone"] = pending[k]["phone"] => j = k

\* the step changes the collection in exactly one document, that of a successful upsert
OneWrite ==
  pending' # pending =>
    /\ resp'.ep = UpsertEp
    /\ resp'.status = 200
    /\ \E k \in DOMAIN pending' :
         /\ resp'.body["id"] = Str(k)
         /\ DOMAIN pending' = DOMAIN pending \cup {k}
         /\ \A j \in DOMAIN pending : j # k => pending'[j] = pending[j]

C19_InvalidPhoneRefused ==
  \A v \in PhoneValues :
    (AuthenticUpsert /\ resp.req.body = With(BaseBody, "phone", v) /\ NoKeyCaller(v)) =>
      /\ Refused("invalid_phone_number")
      /\ "details" \notin DOMAIN resp.body

\* a phone of white space only is refused while a document is stored
C19_Witness ==
  /\ AuthenticUpsert
  /\ resp.req.body = With(BaseBody, "phone", Str(<<" ">>))
  /\ resp.body["error"] = Lit("invalid_phone_number")
  /\ KeyA \in DOMAIN pending

\* resp answers an upsert during which a storage read or write failed
UpsertStorageFailure(r) == r.ep = UpsertEp /\ r.fault

\* C20: when the storage read or write of an upsert fails, the response is 500 with
\* {ok: false, error: "upsert_failed"} and the pending_contacts collection is as it was:
\* a failed read is not followed by a write, and a failed write leaves the previous
\* document, or its absence, intact.
C20_StorageFailureLeavesStore ==
  /\ [](UpsertStorageFailure(resp) =>
          /\ resp.status = 500
          /\ DOMAIN resp.body = {"ok", "error"}
          /\ resp.body["ok"] = Bool(FALSE)
          /\ resp.body["error"] = Lit("upsert_failed")
          /\ resp.writes = 0)
  /\ [][(resp' # resp /\ UpsertStorageFailure(resp')) =>
          /\ pending' = pending
          /\ BagCardinality(inflight') <= BagCardinality(inflight)]_vars

\* a failure while the document of an earlier submission is stored
C20_Witness ==
  /\ UpsertStorageFailure(resp)
  /\ resp.status = 500
  /\ KeyA \in DOMAIN pending
  /\ pending[KeyA]["callCount"] = Num(1)
  /\ inflight = EmptyBag

-----------------------------------------------------------------------------
(* Specification of the whole service: every route, over a failing or working store *)

\* the init token, the read secret, and no token
ServiceHeaders ==
  {Header(Bearer \o TokA, Absent), Header(Bearer \o TokB, Absent), Header(Absent, Absent)}

NextService ==
  \/ \E h \in ServiceHeaders, b \in AuthClientDataBodies, fail \in BOOLEAN :
       ClientData(Request(h, b), fail)
  \/ \E h \in ServiceHeaders, b \in AuthLookupBodies, fail \in BOOLEAN :
       ContactsLookup(Request(h, b), fail)
  \/ \E h \in ServiceHeaders, b \in AuthTwilioBodies, fail \in BOOLEAN :
       TwilioInit(Request(h, b), fail)
  \/ Healthz(NoRequest)
  \/ \E req \in UpsertRequests : UpsertReject(req)
  \/ \E req \in UpsertRequests, fail \in BOOLEAN : UpsertRead(req, fail)
  \/ \E cont \in BagToSet(inflight), fail \in BOOLEAN : UpsertFinish(cont, fail)
  \/ Sent

SpecService == Init /\ [][NextService]_vars

-----------------------------------------------------------------------------
(* Properties of the whole service *)

ReadEps == {ClientDataEp, LookupEp, TwilioEp, "/healthz"}

\* the step replaces or creates the one document of a successful upsert, at the key
\* the response names, and leaves every other document as it was
ReplacesOwnDocument ==
  /\ resp'.ep = UpsertEp
  /\ resp'.status = 200
  /\ resp'.body["id"].s \in DOMAIN pending'
  /\ DOMAIN pending' = DOMAIN pending \cup {resp'.body["id"].s}
  /\ \A k \in DOMAIN pending : k # resp'.body["id"].s => pending'[k] = pending[k]

\* C21: no endpoint writes the contacts collection; the read endpoints leave both
\* collections unchanged in every outcome; the only change a request can cause is a
\* successful upsert replacing the one pending_contacts document at its own key.
C21_OnlyUpsertWrites ==
  [][/\ contacts' = contacts
     /\ (resp' # resp /\ resp'.ep \in ReadEps) => pending' = pending
     /\ pending' # pending => ReplacesOwnDocument]_vars

\* a lookup is answered from a failing store while a submitted document is stored
C21_Witness ==
  /\ resp.ep = LookupEp
  /\ resp.fault
  /\ resp.status = 500
  /\ KeyA \in DOMAIN pending
  /\ KeyA \in DOMAIN contacts

-----------------------------------------------------------------------------
(* Properties of the stored document *)

\* the step answers a successful upsert for key k whose read and write no other
\* submission for k came between, so that the document it found is pending[k]
WritesOver(k) ==
  /\ resp' # resp
  /\ resp'.ep = UpsertEp
  /\ resp'.status = 200
  /\ resp'.body["id"] = Str(k)
  /\ HistOf(k).clean

\* existing callCount plus one, an absent or zero callCount counting as 0
NextCount(doc) ==
  IF "callCount" \in DOMAIN doc /\ doc["callCount"].t = "num"
  THEN Num(doc["callCount"].n + 1)
  ELSE Num(1)

\* C22: a valid upsert that finds a document at the key writes createdDate equal to
\* that document's createdDate, callCount equal to its callCount plus one, and isRepeat
\* true, whatever the request sent; one that finds none writes createdDate, callCount
\* and isRepeat as normalized from the request.
C22_MergeOnUpdate ==
  [][\A k \in {KeyA, KeyB} :
       WritesOver(k) =>
         IF k \in DOMAIN pending
         THEN /\ pending'[k]["createdDate"] = pending[k]["createdDate"]
              /\ pending'[k]["callCount"] = NextCount(pending[k])
              /\ pending'[k]["isRepeat"] = Bool(TRUE)
              /\ resp'.body["isUpdate"] = Bool(TRUE)
         ELSE LET sent == normalizePendingContact(resp'.req.body)
              IN /\ pending'[k]["createdDate"] = sent["createdDate"]
                 /\ pending'[k]["callCount"] = sent["callCount"]
                 /\ pending'[k]["isRepeat"] = sent["isRepeat"]
                 /\ resp'.body["isUpdate"] = Bool(FALSE)]_vars

\* an update that sent another createdDate, callCount 2 and isRepeat false, over a
\* document with callCount 0
C22_Witness ==
  /\ AuthenticUpsert
  /\ resp.status = 200
  /\ resp.req.body = SecondBody
  /\ HistOf(KeyA).clean
  /\ pending[KeyA]["createdDate"] = Lit("d1")
  /\ pending[KeyA]["callCount"] = Num(1)
  /\ pending[KeyA]["isRepeat"] = Bool(TRUE)


\* the step answers a successful upsert for key k
Upserts(k) ==
  /\ resp' # resp
  /\ resp'.ep = UpsertEp
  /\ resp'.status = 200
  /\ resp'.body["id"] = Str(k)

\* the fields of the update block that do not come from the request
CarriedOver == {"createdDate", "callCount"}

\* C23: a successful upsert replaces the whole document at the key: the stored
\* document then has exactly the 20 schema fields and status, submittedBy, submittedAt,
\* updatedAt; every field but createdDate and callCount is set by this request (isRepeat
\* and lastContactDate by the request or by the update block), so nothing else of the
\* previous document survives and no other field of the body is stored.
C23_WholeDocumentReplaced ==
  [][\A k \in {KeyA, KeyB} :
       Upserts(k) =>
         LET sent == normalizePendingContact(resp'.req.body)
             doc == pending'[k]
         IN /\ Cardinality(RequiredSet) = 20
            /\ DOMAIN doc = RequiredSet \cup {"status", "submittedBy", "submittedAt", "updatedAt"}
            /\ doc["phone"] = Str(k)
            /\ doc["status"] = Lit("pending")
            /\ doc["submittedBy"] = Lit("sms-intake")
            /\ doc["submittedAt"] = ServerTimestamp
            /\ doc["updatedAt"] = ServerTimestamp
            /\ doc["isRepeat"] \in {sent["isRepeat"], Bool(TRUE)}
            /\ doc["lastContactDate"] \in {sent["lastContactDate"], NowIso}
            /\ \A f \in RequiredSet \ (CarriedOver \cup {"phone", "isRepeat", "lastContactDate"}) :
                 doc[f] = sent[f]]_vars

\* the first body has replaced a document written from the second, whose name and
\* extra field are gone
C23_Witness ==
  /\ AuthenticUpsert
  /\ resp.status = 200
  /\ resp.req.body = FirstBody
  /\ resp.body["isUpdate"] = Bool(TRUE)
  /\ HistOf(KeyA).clean
  /\ HistOf(KeyA).cd = Str(PaddedDate)
  /\ pending[KeyA]["name"] = FirstBody["name"]
  /\ pending[KeyA]["name"] # SecondBody["name"]
  /\ pending[KeyA]["createdDate"] = Lit("d2")
  /\ "utmSource" \in DOMAIN SecondBody
  /\ "utmSource" \notin DOMAIN pending[KeyA]


-----------------------------------------------------------------------------
(* Properties of overlapping submissions *)

\* the step is the write and the answer of the submission whose read left cont
Finishes(cont) ==
  /\ cont \in BagToSet(inflight)
  /\ inflight' = inflight (-) SetToBag({cont})
  /\ resp' # resp

\* C24: the read and the write of an upsert are not one step: a submission that has
\* read the key writes, unless the write fails, the payload it built from what it
\* read and answers ok:true with the isUpdate and callCount of that payload, whatever
\* has been written to the key since; the document stored by the other submission is
\* replaced (from no document, both answer isUpdate false and the callCount stored is
\* the one submitted).
C24_LastWriteWins ==
  [][\A cont \in BagToSet(inflight) :
       (Finishes(cont) /\ ~resp'.fault) =>
          /\ resp'.status = 200
          /\ resp'.body["ok"] = Bool(TRUE)
          /\ resp'.body["id"] = Str(cont.key)
          /\ resp'.body["isUpdate"] = Bool(cont.isUpdate)
          /\ resp'.body["callCount"] = cont.payload["callCount"]
          /\ pending'[cont.key] = cont.payload
          /\ ~cont.isUpdate =>
               /\ cont.payload["callCount"] = normalizePendingContact(cont.req.body)["callCount"]
               /\ cont.payload["isRepeat"] = normalizePendingContact(cont.req.body)["isRepeat"]]_vars

\* both submissions read the empty key; the second body has been written and answered
\* isUpdate false, and the first, still holding isUpdate false and its own callCount,
\* is about to replace it
C24_Witness ==
  /\ AuthenticUpsert
  /\ resp.status = 200
  /\ resp.req.body = SecondBody
  /\ resp.body["isUpdate"] = Bool(FALSE)
  /\ pending[KeyA]["name"] = SecondBody["name"]
  /\ pending[KeyA]["callCount"] = Num(2)
  /\ \E cont \in BagToSet(inflight) :
       /\ cont.req.body = FirstBody
       /\ cont.key = KeyA
       /\ ~cont.isUpdate
       /\ cont.payload["callCount"] = Num(0)
       /\ cont.payload # pending[KeyA]


-----------------------------------------------------------------------------
(* Properties of the caller string *)

\* the field of the body the caller string is taken from, "" when from none
CallerSource(body) ==
  LET present(p) == p \in DOMAIN body /\ body[p].t \notin {"null", "undef"}
  IN IF present("telephony.from") THEN "telephony.from"
     ELSE IF present("twilio.From") THEN "twilio.From"
     ELSE IF present("from") THEN "from"
     ELSE ""

\* C25: /elevenlabs/client-data answers from the first of body.telephony.from,
\* body.twilio.From, body.from that is neither null nor undefined: when that value
\* gives no key the answer is the empty one and nothing is read, even if a later
\* field holds a valid number; when it gives a key, that key is the one read and
\* reported.
C25_FirstPresentCallerWins ==
  AuthenticClientData =>
    LET src == CallerSource(resp.req.body)
        caller == IF src = "" THEN Null ELSE resp.req.body[src]
        key == toE164(caller)
    IN IF Truthy(key)
       THEN /\ resp.reads = 1
            /\ ~resp.fault => StatusOf("phone_e164") = key
       ELSE /\ resp.reads = 0
            /\ resp.body = ClientDataEmpty

\* an empty telephony.from over a twilio.From and a from that both give keys: nothing
\* is read
C25_Witness ==
  /\ AuthenticClientData
  /\ resp.req.body["telephony.from"] = Str(<<>>)
  /\ resp.req.body["twilio.From"] = Str(Phone7)
  /\ resp.req.body["from"] = Str(Phone10)
  /\ Truthy(toE164(resp.req.body["from"]))
  /\ resp.reads = 0
  /\ resp.body = ClientDataEmpty


-----------------------------------------------------------------------------
(* Properties of the storage operations of one request *)

\* the storage operations of the request being answered are within the order
\* read, then write: at most one of each, a write only after a read, none after
\* a failure
OperationsInOrder ==
  /\ resp.reads \in {0, 1}
  /\ resp.writes \in {0, 1}
  /\ resp.ep \in ReadEps => resp.writes = 0
  /\ resp.ep = "/healthz" => resp.reads = 0
  /\ resp.writes = 1 => (resp.reads = 1 /\ resp.status = 200 /\ ~resp.fault)
  /\ (resp.fault /\ resp.reads = 1) => resp.writes = 0

\* a step that changes the pending collection is the write of a submission whose own
\* read has completed, and is its answer
WriteFollowsOwnRead ==
  pending' # pending =>
    \E cont \in BagToSet(inflight) :
      /\ Finishes(cont)
      /\ resp'.req = cont.req
      /\ resp'.writes = 1

\* a submission is in flight only between its successful read and its one attempt to
\* write: a failed read leaves nothing in flight, and the answer to a write, failed or
\* not, takes the submission out
NoRetry ==
  /\ (resp' # resp /\ resp'.ep = UpsertEp /\ resp'.reads = 0) => inflight' = inflight
  /\ (resp' # resp /\ resp'.ep = UpsertEp /\ resp'.reads = 1) =>
       \/ resp'.fault /\ resp'.status = 500 /\ inflight' = inflight /\ pending' = pending
       \/ \E cont \in BagToSet(inflight) :
            /\ Finishes(cont)
            /\ resp'.req = cont.req
            /\ BagCardinality(inflight') = BagCardinality(inflight) - 1
            /\ resp'.status = 500 => pending' = pending
  /\ inflight' # inflight =>
       \/ resp' # resp /\ BagCardinality(inflight') = BagCardinality(inflight) - 1
       \/ resp' = resp /\ pending' = pending
            /\ BagCardinality(inflight') = BagCardinality(inflight) + 1

\* C26: within one request nothing is retried and the storage operations are in a
\* fixed order: a read endpoint reads at most once; an upsert reads at most once and
\* writes at most once, the write after its own read has succeeded; after a failure no
\* further storage operation of the request follows.
C26_OneReadThenOneWrite ==
  [](OperationsInOrder) /\ [][WriteFollowsOwnRead /\ NoRetry]_vars

\* a submission whose write has failed: it has read once, is no longer in flight, and
\* the key it read is still empty
C26_Witness ==
  /\ AuthenticUpsert
  /\ resp.fault
  /\ resp.status = 500
  /\ resp.reads = 1
  /\ resp.writes = 0
  /\ resp.req.body = FirstBody
  /\ inflight = EmptyBag
  /\ KeyA \notin DOMAIN pending
  /\ HistOf(KeyA).clean


-----------------------------------------------------------------------------
(* Properties of the answers of the upsert *)

\* C28: an authenticated upsert is answered 500 only when the read or the write of the
\* store fails; with a working store every body is answered 400 with an error code or
\* 200 with ok:true.
C28_FailureOnlyFromStore ==
  AuthenticUpsert =>
    \/ resp.status = 500 /\ resp.fault
    \/ resp.status = 400 /\ Field(resp.body, "ok") = Bool(FALSE) /\ Field(resp.body, "error").t = "str"
    \/ resp.status = 200 /\ Field(resp.body, "ok") = Bool(TRUE)


-----------------------------------------------------------------------------
(* Properties of the key of a normalized phone *)

\* a body that holds the input as its phone
PhoneBody(v) == [f \in {"phone"} |-> v]

\* C29: toE164 leaves its own keys as they are, toE164(toE164(x)) = toE164(x) whenever
\* toE164(x) is a key; so the key the upsert handler computes from the normalized
\* phone is the phone normalizePendingContact produced.
C29_KeyOfKeyIsKey ==
  /\ Truthy(out) => toE164(out) = out
  /\ LET normalized == normalizePendingContact(PhoneBody(raw))
         e164 == toE164(normalized["phone"])
     IN Truthy(e164) => (e164 = normalized["phone"] /\ e164 = out)

\* a formatted 10-digit number that begins with white space: the key differs from the
\* input and normalizes to itself
C29_Witness ==
  /\ raw.t = "str"
  /\ Len(DigitRun(raw.s)) = 10
  /\ Len(raw.s) = 12
  /\ Head(raw.s) = " "
  /\ out = Str(<<"+", "1">> \o DigitRun(raw.s))
  /\ out # raw
  /\ toE164(out) = out
  /\ normalizePendingContact(PhoneBody(raw))["phone"] = out


-----------------------------------------------------------------------------
(* Properties of an endpoint whose secret is not configured *)

\* resp answers a request to an authenticated endpoint whose secret resolves to ""
NotConfigured == resp.ep \in AuthenticatedEps /\ EndpointSecret(resp.ep) = <<>>

\* C30: when the secret of an endpoint is not configured no request is authenticated
\* on it, whatever its headers (a Bearer scheme with an empty token, an empty
\* Authorization or X-Auth-Token header, or the value of another secret): it is
\* answered 401 on /elevenlabs/client-data, /pending-contacts/upsert,
\* /contacts/lookup and /twilio-init alike, and the store is not accessed.
C30_NoSecretNoAccess ==
  NotConfigured =>
    /\ resp.status = 401
    /\ resp.body = Unauthorized
    /\ resp.reads = 0
    /\ resp.writes = 0

\* a valid submission with empty Authorization and X-Auth-Token headers while neither
\* write secret is set and READ_SECRET is
C30_Witness ==
  /\ resp.ep = UpsertEp
  /\ env["INTAKE_WRITE_TOKEN"] = <<>>
  /\ env["INTAKE_SECRET"] = <<>>
  /\ env["READ_SECRET"] # <<>>
  /\ resp.req.hdr = Header(<<>>, <<>>)
  /\ "email" \in DOMAIN resp.req.body
  /\ resp.status = 401

====
